---- MODULE Spec2Model ----
(***************************************************************************)
(* Model of the AI grading application: the response normalizer of         *)
(* grading_service.py (fence / brace extraction, JSON decoding, clamping,  *)
(* regex fallback, canonical error result), the remote caller, the upload  *)
(* step and the sequential per-file loop of app.py, the workbook of        *)
(* excel_export.py, and the letter grades of helpers.py.                   *)
(*                                                                         *)
(* Text is a sequence of tokens.  A token is a record whose field t names  *)
(* the lexical class; the classes are the ones the code distinguishes:     *)
(*   "fence_open"  the characters ```json followed by a newline            *)
(*   "fence_close" a newline followed by ```                               *)
(*   "{" "}"       braces                                                  *)
(*   "ws"          white space                                             *)
(*   ":" "/"       punctuation the fallback pattern looks at               *)
(*   "kw"          an occurrence of score / mark / marks (any case)        *)
(*   "num"         a maximal run of digits, field v its value              *)
(*   "word"        any other prose                                         *)
(*   "member"      a JSON member "k": v (with its comma), fields k and v   *)
(*   "lit"         a literal string of the program, field s                *)
(* Numbers are exact rationals [ty |-> "num", n, d] in lowest terms, or    *)
(* the float nan that the JSON decoder of Python accepts.                  *)
(***************************************************************************)
EXTENDS Integers, Sequences, FiniteSets, TLC

\* ------------------------------------------------------------------ bounds
MaxTotalMarks == 3
MaxFiles == 2

\* ----------------------------------------------------------- number values
RECURSIVE Gcd(_, _)
Gcd(a, b) == IF b = 0 THEN a ELSE Gcd(b, a % b)

Abs(x) == IF x < 0 THEN -x ELSE x

\* the rational n/d (d # 0) in lowest terms with a positive denominator
Rat(n, d) ==
    LET g == Gcd(Abs(n), Abs(d))
        s == IF d < 0 THEN -1 ELSE 1
    IN [ty |-> "num", n |-> (s * n) \div g, d |-> (s * d) \div g]

Int2Num(i) == [ty |-> "num", n |-> i, d |-> 1]
NaN == [ty |-> "nan"]
Null == [ty |-> "null"]
Str(text) == [ty |-> "str", s |-> text]
List(items) == [ty |-> "list", items |-> items]
Obj(members) == [ty |-> "obj", members |-> members]

IsNumber(v) == v.ty \in {"num", "nan"}

\* Python's a < b on numbers: false whenever an operand is nan
PyLt(a, b) == a.ty = "num" /\ b.ty = "num" /\ a.n * b.d < b.n * a.d
PyGt(a, b) == PyLt(b, a)
PyLe(a, b) == a.ty = "num" /\ b.ty = "num" /\ a.n * b.d <= b.n * a.d
PyEq(a, b) == a.ty = "num" /\ b.ty = "num" /\ a.n * b.d = b.n * a.d

\* Python's min(a, b): a unless b < a
PyMin(a, b) == IF PyLt(b, a) THEN b ELSE a

PyMul(a, b) == IF a.ty = "num" /\ b.ty = "num" THEN Rat(a.n * b.n, a.d * b.d) ELSE NaN
\* a / b for b # 0
PyDiv(a, b) == IF a.ty = "num" /\ b.ty = "num" THEN Rat(a.n * b.d, a.d * b.n) ELSE NaN

\* Python truthiness of a decoded JSON value
Truthy(v) ==
    CASE v.ty = "num" -> v.n # 0
      [] v.ty = "nan" -> TRUE
      [] v.ty = "null" -> FALSE
      [] v.ty = "str" -> v.s # <<>>
      [] v.ty = "list" -> v.items # <<>>
      [] v.ty = "obj" -> v.members # <<>>
      [] OTHER -> FALSE

\* -------------------------------------------------------------------- text
Tok(c) == [t |-> c]
NumTok(v) == [t |-> "num", v |-> v]
Member(k, v) == [t |-> "member", k |-> k, v |-> v]
Lit(s) == [t |-> "lit", s |-> s]

\* str.strip(): drop leading and trailing white space
RECURSIVE LStrip(_)
LStrip(s) == IF s # <<>> /\ Head(s).t = "ws" THEN LStrip(Tail(s)) ELSE s
RECURSIVE RStrip(_)
RStrip(s) ==
    IF s # <<>> /\ s[Len(s)].t = "ws" THEN RStrip(SubSeq(s, 1, Len(s) - 1)) ELSE s
Strip(s) == RStrip(LStrip(s))

\* Python slice s[a:b] for 0 <= a, 0 <= b (0-based, end exclusive)
Slice(s, a, b) == SubSeq(s, a + 1, IF b > Len(s) THEN Len(s) ELSE b)

\* str.find / str.rfind of a one-token pattern: 0-based index, or -1
Find(s, c) ==
    IF \E i \in 1..Len(s) : s[i].t = c
    THEN (CHOOSE i \in 1..Len(s) : s[i].t = c /\ \A j \in 1..(i - 1) : s[j].t # c) - 1
    ELSE -1
RFind(s, c) ==
    IF \E i \in 1..Len(s) : s[i].t = c
    THEN (CHOOSE i \in 1..Len(s) : s[i].t = c /\ \A j \in (i + 1)..Len(s) : s[j].t # c) - 1
    ELSE -1

\* str.join
RECURSIVE Join(_, _)
Join(parts, sep) ==
    IF parts = <<>> THEN <<>>
    ELSE IF Len(parts) = 1 THEN parts[1]
    ELSE parts[1] \o sep \o Join(Tail(parts), sep)

\* ----------------------------------------------------------- JSON decoding
\* json.loads on the extracted content: white space between tokens is
\* ignored; an object is { members }, a lone digit run is a JSON number;
\* every other text raises JSONDecodeError.
JsonLoads(content) ==
    LET NotWs(x) == x.t # "ws"
        c == SelectSeq(content, NotWs)
    IN  IF /\ Len(c) >= 2
           /\ c[1].t = "{"
           /\ c[Len(c)].t = "}"
           /\ \A i \in 2..(Len(c) - 1) : c[i].t = "member"
        THEN [ok |-> TRUE, kind |-> "dict", members |-> SubSeq(c, 2, Len(c) - 1)]
        ELSE IF Len(c) = 1 /\ c[1].t = "num"
        THEN [ok |-> TRUE, kind |-> "int", value |-> Int2Num(c[1].v)]
        ELSE [ok |-> FALSE, kind |-> "JSONDecodeError"]

HasKey(members, k) == \E i \in 1..Len(members) : members[i].k = k

\* dict.get(k, default): a repeated key keeps its last value
DictGet(members, k, default) ==
    IF HasKey(members, k)
    THEN members[CHOOSE i \in 1..Len(members) :
                    /\ members[i].k = k
                    /\ \A j \in (i + 1)..Len(members) : members[j].k # k].v
    ELSE default

\* ------------------------------------------------------- grading_service.py
\* _create_error_result
CreateErrorResult(error_message) ==
    [total_score |-> Int2Num(0),
     percentage |-> Int2Num(0),
     feedback |-> <<Lit("Error during grading: ")>> \o error_message,
     criteria_scores |-> Obj(<<>>),
     questions |-> List(<<>>),
     strengths |-> List(<<>>),
     areas_for_improvement |-> List(<<>>),
     grade_justification |-> Str(<<Lit("Grading failed due to technical error.")>>)]

\* "\n".join(f"* {x}" for x in value): a number is not iterable
BulletsRaise(value) == IsNumber(value)
Bullets(value) ==
    Join([i \in 1..Len(value.items) |-> <<Lit("* ")>> \o value.items[i].s], <<Lit("\n")>>)

\* _combine_feedback: the exception it raises, "none" when it returns
CombineFeedbackError(d) ==
    LET of == DictGet(d, "overall_feedback", Null)
        st == DictGet(d, "strengths", Null)
        ar == DictGet(d, "areas_for_improvement", Null)
    IN  IF Truthy(st) /\ BulletsRaise(st) THEN "TypeError: not iterable"
        ELSE IF Truthy(ar) /\ BulletsRaise(ar) THEN "TypeError: not iterable"
        ELSE IF Truthy(of) /\ of.ty # "str" THEN "TypeError: expected str instance"
        ELSE "none"

\* _combine_feedback: the text it returns
CombineFeedback(d) ==
    LET of == DictGet(d, "overall_feedback", Null)
        st == DictGet(d, "strengths", Null)
        ar == DictGet(d, "areas_for_improvement", Null)
        gj == DictGet(d, "grade_justification", Null)
        p1 == IF Truthy(of) THEN <<of.s>> ELSE <<>>
        p2 == IF Truthy(st) THEN <<<<Lit("**Strengths:**\n")>> \o Bullets(st)>> ELSE <<>>
        p3 == IF Truthy(ar)
              THEN <<<<Lit("**Areas for Improvement:**\n")>> \o Bullets(ar)>> ELSE <<>>
        p4 == IF Truthy(gj) THEN <<<<Lit("**Grade Justification:**\n")>> \o gj.s>> ELSE <<>>
    IN  Join(p1 \o p2 \o p3 \o p4, <<Lit("\n\n")>>)

\* FenceGroup with a greedy (.*): up to the last closing fence of the text
FenceGroupGreedy(response) ==
    LET i == CHOOSE i \in 1..Len(response) :
                /\ response[i].t = "fence_open"
                /\ \A h \in 1..(i - 1) : response[h].t # "fence_open"
        j == CHOOSE j \in (i + 1)..Len(response) :
                /\ response[j].t = "fence_close"
                /\ \A h \in (j + 1)..Len(response) : response[h].t # "fence_close"
    IN  SubSeq(response, i + 1, j - 1)

\* re.search(r'```json\n(.*?)\n```', response, re.DOTALL): group(1) of the
\* leftmost match, lazily up to the first closing fence after it
FenceFound(response) ==
    \E i \in 1..Len(response) : \E j \in (i + 1)..Len(response) :
        response[i].t = "fence_open" /\ response[j].t = "fence_close"
FenceGroup(response) ==
    LET i == CHOOSE i \in 1..Len(response) :
                /\ response[i].t = "fence_open"
                /\ \E j \in (i + 1)..Len(response) : response[j].t = "fence_close"
                /\ \A h \in 1..(i - 1) :
                      ~(/\ response[h].t = "fence_open"
                        /\ \E j \in (h + 1)..Len(response) : response[j].t = "fence_close")
        j == CHOOSE j \in (i + 1)..Len(response) :
                /\ response[j].t = "fence_close"
                /\ \A h \in (i + 1)..(j - 1) : response[h].t # "fence_close"
    IN  SubSeq(response, i + 1, j - 1)

\* JsonContent without the slice of lines 194-197: a reply without a fence is
\* handed to json.loads as a whole
JsonContentWholeString(response) ==
    IF FenceFound(response) THEN FenceGroup(response) ELSE response

\* lines 186-199: the text handed to json.loads
JsonContent(response) ==
    IF FenceFound(response) THEN FenceGroup(response)
    ELSE LET json_start == Find(response, "{")
             json_end == RFind(response, "}") + 1
         IN  IF json_start # -1 /\ json_end > json_start
             THEN Slice(response, json_start, json_end)
             ELSE response

\* re.search(r'(?:score|marks?)[:\s]*(\d+)(?:/(\d+))?', response, re.IGNORECASE)
\* index of the first token after position i that is neither ":" nor white space
RECURSIVE SkipSeparators(_, _)
SkipSeparators(s, i) ==
    IF i <= Len(s) /\ s[i].t \in {":", "ws"} THEN SkipSeparators(s, i + 1) ELSE i

ScoreMatchAt(s, i) ==
    /\ s[i].t = "kw"
    /\ SkipSeparators(s, i + 1) <= Len(s)
    /\ s[SkipSeparators(s, i + 1)].t = "num"

ScoreFound(s) == \E i \in 1..Len(s) : ScoreMatchAt(s, i)

\* the groups of the leftmost match: g1 the digits, g2 the digits after "/"
\* (has2 tells whether the optional group took part)
ScoreMatch(s) ==
    LET i == CHOOSE i \in 1..Len(s) :
                ScoreMatchAt(s, i) /\ \A h \in 1..(i - 1) : ~ScoreMatchAt(s, h)
        j == SkipSeparators(s, i + 1)
        has2 == j + 2 <= Len(s) /\ s[j + 1].t = "/" /\ s[j + 2].t = "num"
    IN  [g1 |-> s[j].v, has2 |-> has2, g2 |-> IF has2 THEN s[j + 2].v ELSE 0]

\* _fallback_text_parsing without the rescaling of lines 266-267
FallbackTextParsingNoRescale(response, total_marks) ==
    LET score == IF ScoreFound(response)
                 THEN PyMin(Int2Num(ScoreMatch(response).g1), Int2Num(total_marks))
                 ELSE Int2Num(0)
    IN  [total_score |-> score,
         percentage |-> PyMul(PyDiv(score, Int2Num(total_marks)), Int2Num(100)),
         feedback |-> response,
         criteria_scores |-> Obj(<<>>),
         questions |-> List(<<>>),
         strengths |-> List(<<>>),
         areas_for_improvement |-> List(<<>>),
         grade_justification |->
             Str(<<Lit("Grading performed using fallback text analysis.")>>)]

\* _fallback_text_parsing whose default score (line 271) is the full total
FallbackTextParsingDefaultsToFull(response, total_marks) ==
    LET score == IF ScoreFound(response)
                 THEN FallbackTextParsingNoRescale(response, total_marks).total_score
                 ELSE Int2Num(total_marks)
    IN  [total_score |-> score,
         percentage |-> PyMul(PyDiv(score, Int2Num(total_marks)), Int2Num(100)),
         feedback |-> response,
         criteria_scores |-> Obj(<<>>),
         questions |-> List(<<>>),
         strengths |-> List(<<>>),
         areas_for_improvement |-> List(<<>>),
         grade_justification |->
             Str(<<Lit("Grading performed using fallback text analysis.")>>)]

\* _fallback_text_parsing that takes a denominator of 0 as no denominator, so
\* that nothing is raised inside it
FallbackTextParsingIgnoresZero(response, total_marks) ==
    LET m == ScoreMatch(response)
        max_score == IF m.has2 /\ m.g2 # 0 THEN m.g2 ELSE total_marks
        scaled == IF max_score # total_marks
                  THEN PyMul(PyDiv(Int2Num(m.g1), Int2Num(max_score)), Int2Num(total_marks))
                  ELSE Int2Num(m.g1)
        score == IF ScoreFound(response)
                 THEN PyMin(scaled, Int2Num(total_marks))
                 ELSE Int2Num(0)
    IN  [total_score |-> score,
         percentage |-> PyMul(PyDiv(score, Int2Num(total_marks)), Int2Num(100)),
         feedback |-> response,
         criteria_scores |-> Obj(<<>>),
         questions |-> List(<<>>),
         strengths |-> List(<<>>),
         areas_for_improvement |-> List(<<>>),
         grade_justification |->
             Str(<<Lit("Grading performed using fallback text analysis.")>>)]

\* _fallback_text_parsing
FallbackTextParsing(response, total_marks) ==
    IF ScoreFound(response)
       /\ ScoreMatch(response).has2
       /\ ScoreMatch(response).g2 # total_marks
       /\ ScoreMatch(response).g2 = 0
    THEN \* ZeroDivisionError, caught at line 284
         CreateErrorResult(<<Lit("Failed to parse grading response")>>)
    ELSE
    LET m == ScoreMatch(response)
        max_score == IF m.has2 THEN m.g2 ELSE total_marks
        scaled == IF max_score # total_marks
                  THEN PyMul(PyDiv(Int2Num(m.g1), Int2Num(max_score)), Int2Num(total_marks))
                  ELSE Int2Num(m.g1)
        score == IF ScoreFound(response)
                 THEN PyMin(scaled, Int2Num(total_marks))
                 ELSE Int2Num(0)
    IN  [total_score |-> score,
         percentage |-> IF total_marks > 0
                        THEN PyMul(PyDiv(score, Int2Num(total_marks)), Int2Num(100))
                        ELSE Int2Num(0),
         feedback |-> response,
         criteria_scores |-> Obj(<<>>),
         questions |-> List(<<>>),
         strengths |-> List(<<>>),
         areas_for_improvement |-> List(<<>>),
         grade_justification |->
             Str(<<Lit("Grading performed using fallback text analysis.")>>)]

\* NormalizedResult without the min(): the score is taken as the reply gives it
NormalizedResultNoClamp(d, total_marks) ==
    LET total_score == DictGet(d, "total_score", Int2Num(0))
        provided == DictGet(d, "percentage", Int2Num(0))
    IN  [total_score |-> total_score,
         percentage |-> IF PyGt(total_score, Int2Num(0))
                        THEN PyMul(PyDiv(total_score, Int2Num(total_marks)), Int2Num(100))
                        ELSE provided,
         feedback |-> CombineFeedback(d),
         criteria_scores |-> DictGet(d, "criteria_scores", Obj(<<>>)),
         questions |-> DictGet(d, "questions", List(<<>>)),
         strengths |-> DictGet(d, "strengths", List(<<>>)),
         areas_for_improvement |-> DictGet(d, "areas_for_improvement", List(<<>>)),
         grade_justification |-> DictGet(d, "grade_justification", Str(<<>>))]

\* NormalizedResult that trusts the reply's percentage and never recomputes it
NormalizedResultKeepsPercentage(d, total_marks) ==
    [total_score |-> PyMin(DictGet(d, "total_score", Int2Num(0)), Int2Num(total_marks)),
     percentage |-> DictGet(d, "percentage", Int2Num(0)),
     feedback |-> CombineFeedback(d),
     criteria_scores |-> DictGet(d, "criteria_scores", Obj(<<>>)),
     questions |-> DictGet(d, "questions", List(<<>>)),
     strengths |-> DictGet(d, "strengths", List(<<>>)),
     areas_for_improvement |-> DictGet(d, "areas_for_improvement", List(<<>>)),
     grade_justification |-> DictGet(d, "grade_justification", Str(<<>>))]

\* NormalizedResult that recomputes the percentage whatever the score
NormalizedResultAlwaysRecomputes(d, total_marks) ==
    LET total_score == PyMin(DictGet(d, "total_score", Int2Num(0)), Int2Num(total_marks))
    IN  [total_score |-> total_score,
         percentage |-> PyMul(PyDiv(total_score, Int2Num(total_marks)), Int2Num(100)),
         feedback |-> CombineFeedback(d),
         criteria_scores |-> DictGet(d, "criteria_scores", Obj(<<>>)),
         questions |-> DictGet(d, "questions", List(<<>>)),
         strengths |-> DictGet(d, "strengths", List(<<>>)),
         areas_for_improvement |-> DictGet(d, "areas_for_improvement", List(<<>>)),
         grade_justification |-> DictGet(d, "grade_justification", Str(<<>>))]

\* NormalizedResult that takes an empty criteria_scores as a failure
NormalizedResultRequiresCriteria(d, total_marks) ==
    LET total_score == PyMin(DictGet(d, "total_score", Int2Num(0)), Int2Num(total_marks))
        provided == DictGet(d, "percentage", Int2Num(0))
    IN  IF DictGet(d, "criteria_scores", Obj(<<>>)) = Obj(<<>>)
        THEN CreateErrorResult(<<Lit("No criteria scores in the reply")>>)
        ELSE [total_score |-> total_score,
              percentage |-> IF PyGt(total_score, Int2Num(0))
                             THEN PyMul(PyDiv(total_score, Int2Num(total_marks)),
                                        Int2Num(100))
                             ELSE provided,
              feedback |-> CombineFeedback(d),
              criteria_scores |-> DictGet(d, "criteria_scores", Obj(<<>>)),
              questions |-> DictGet(d, "questions", List(<<>>)),
              strengths |-> DictGet(d, "strengths", List(<<>>)),
              areas_for_improvement |-> DictGet(d, "areas_for_improvement", List(<<>>)),
              grade_justification |-> DictGet(d, "grade_justification", Str(<<>>))]

\* lines 205-220: the normalized result of a decoded object whose fields raise
\* nothing
NormalizedResult(d, total_marks) ==
    LET total_score == PyMin(DictGet(d, "total_score", Int2Num(0)), Int2Num(total_marks))
        provided == DictGet(d, "percentage", Int2Num(0))
    IN  [total_score |-> total_score,
         percentage |-> IF PyGt(total_score, Int2Num(0))
                        THEN PyMul(PyDiv(total_score, Int2Num(total_marks)), Int2Num(100))
                        ELSE provided,
         feedback |-> CombineFeedback(d),
         criteria_scores |-> DictGet(d, "criteria_scores", Obj(<<>>)),
         questions |-> DictGet(d, "questions", List(<<>>)),
         strengths |-> DictGet(d, "strengths", List(<<>>)),
         areas_for_improvement |-> DictGet(d, "areas_for_improvement", List(<<>>)),
         grade_justification |-> DictGet(d, "grade_justification", Str(<<>>))]

\* the path _parse_grading_response takes on a reply:
\*   "fallback"   json.loads raised JSONDecodeError (line 222)
\*   "error"      another exception was raised (line 226)
\*   "structured" the normalized result is returned (line 220)
ParsePath(reply) ==
    LET data == JsonLoads(JsonContent(Strip(reply)))
    IN  IF ~data.ok THEN "fallback"
        ELSE IF data.kind # "dict" THEN "error"
        ELSE IF ~IsNumber(DictGet(data.members, "total_score", Int2Num(0))) THEN "error"
        ELSE IF CombineFeedbackError(data.members) # "none" THEN "error"
        ELSE "structured"

\* str(e) of the exception caught at line 226
ParseErrorMessage(reply) ==
    LET data == JsonLoads(JsonContent(Strip(reply)))
    IN  IF data.kind # "dict" THEN <<Lit("'int' object has no attribute 'get'")>>
        ELSE IF ~IsNumber(DictGet(data.members, "total_score", Int2Num(0)))
        THEN <<Lit("'<' not supported between instances of 'int' and "),
               Lit(DictGet(data.members, "total_score", Int2Num(0)).ty)>>
        ELSE <<Lit(CombineFeedbackError(data.members))>>

\* _parse_grading_response whose JSONDecodeError handler (line 222) gives the
\* error result instead of running the fallback
ParseGradingResponseNoFallback(reply, total_marks) ==
    LET response == Strip(reply)
        path == ParsePath(reply)
    IN  CASE path = "fallback" -> CreateErrorResult(<<Lit("Expecting value")>>)
          [] path = "error" -> CreateErrorResult(ParseErrorMessage(reply))
          [] OTHER -> NormalizedResult(JsonLoads(JsonContent(response)).members, total_marks)

\* _parse_grading_response with one handler for every exception: the fallback
\* also runs when the decoded value cannot be processed
ParseGradingResponseAlwaysFallsBack(reply, total_marks) ==
    LET response == Strip(reply)
        path == ParsePath(reply)
    IN  IF path \in {"fallback", "error"}
        THEN FallbackTextParsing(response, total_marks)
        ELSE NormalizedResult(JsonLoads(JsonContent(response)).members, total_marks)

\* _parse_grading_response
ParseGradingResponse(reply, total_marks) ==
    LET response == Strip(reply)
        path == ParsePath(reply)
    IN  CASE path = "fallback" -> FallbackTextParsing(response, total_marks)
          [] path = "error" -> CreateErrorResult(ParseErrorMessage(reply))
          [] OTHER -> NormalizedResult(JsonLoads(JsonContent(response)).members, total_marks)

\* ------------------------------------------------------------------ inputs
Word == Tok("word")
Ws == Tok("ws")
Colon == Tok(":")
Slash == Tok("/")
Kw == Tok("kw")
LBrace == Tok("{")
RBrace == Tok("}")
FenceOpen == Tok("fence_open")
FenceClose == Tok("fence_close")

\* st.number_input(min_value=1, ...): the configured total, within the bound,
\* and the total of the documented example
TotalMarksValues == (1..MaxTotalMarks) \cup {20}

\* values a reply gives total_score: integers below, inside and above every
\* total, a fraction, nan, null and a quoted number
ScoreValues ==
    {Int2Num(n) : n \in (-1)..(MaxTotalMarks + 1)}
        \cup {Int2Num(21), Rat(1, 2), NaN, Null, Str(<<NumTok(2)>>)}

ScoreMembers == {<<>>} \cup {<<Member("total_score", v)>> : v \in ScoreValues}
PercentageMembers == {<<>>, <<Member("percentage", Int2Num(50))>>}
FeedbackMembers ==
    {<<>>,
     <<Member("overall_feedback", Str(<<Word>>))>>,
     <<Member("overall_feedback", Obj(<<Member("summary", Str(<<Word>>))>>))>>}
StrengthMembers ==
    {<<>>,
     <<Member("strengths", List(<<Str(<<Word>>)>>)),
       Member("areas_for_improvement", List(<<Str(<<Word>>), Str(<<Word, Ws, Word>>)>>)),
       Member("grade_justification", Str(<<Word>>))>>}
OneQuestion ==
    Obj(<<Member("question_number", Int2Num(1)), Member("score", Int2Num(1)),
          Member("max_score", Int2Num(1))>>)
CriteriaMembers ==
    {<<>>,
     <<Member("criteria_scores", Obj(<<>>))>>,
     <<Member("criteria_scores", Obj(<<Member("Criterion 1", Int2Num(1))>>)),
       Member("questions", List(<<OneQuestion>>))>>}

\* the JSON objects a reply may carry
JsonObjects ==
    {<<LBrace>> \o a \o b \o c \o d \o e \o <<RBrace>> :
        a \in ScoreMembers, b \in PercentageMembers, c \in FeedbackMembers,
        d \in StrengthMembers, e \in CriteriaMembers}

\* prose around a fenced block: it may hold braces and further code blocks
FenceBefore == {<<>>, <<Word, Ws>>, <<LBrace, Word, RBrace, FenceClose, Ws>>}
FenceAfter == {<<>>, <<Ws, Word, RBrace>>, <<Ws, FenceOpen, Word, FenceClose>>}
\* prose without braces around a bare object
PlainBefore == {<<Word, Ws>>, <<Kw, Colon, NumTok(1), Ws>>}
PlainAfter == {<<>>, <<Ws, Word>>}

\* texts matching the score pattern in every shape: with and without
\* separators, with and without /M, and with a blank after the slash
ScoreTexts ==
    {<<Kw>> \o sep \o <<NumTok(n)>> \o tail :
        sep \in {<<>>, <<Colon, Ws>>},
        n \in 0..(MaxTotalMarks + 1),
        tail \in {<<>>, <<Slash, Ws, NumTok(1)>>}
                   \cup {<<Slash, NumTok(m)>> : m \in 0..(MaxTotalMarks + 1)}}
        \cup {<<Kw, Colon, Ws, NumTok(7), Slash, NumTok(10)>>}

\* what precedes the pattern in a reply that is not JSON: nothing, prose, a
\* keyword without a number, a truncated object, a fenced truncated object
TextBefore ==
    {<<>>, <<Word, Ws>>, <<Kw, Ws, Word, Ws>>,
     <<LBrace, Member("total_score", Int2Num(1))>>,
     <<FenceOpen, LBrace, FenceClose, Ws>>}
TextAfter == {<<>>, <<Ws, Word>>}

\* how a reply text is put together
Origins ==
    [kind : {"bare"}, body : JsonObjects, pre : {<<>>, <<Ws>>}, post : {<<>>, <<Ws>>}]
        \cup [kind : {"fenced"}, body : JsonObjects, pre : FenceBefore, post : FenceAfter]
        \cup [kind : {"sliced"}, body : JsonObjects, pre : PlainBefore, post : PlainAfter]
        \cup [kind : {"text"}, body : ScoreTexts \cup {<<>>, <<NumTok(7)>>},
              pre : TextBefore, post : TextAfter]

ReplyText(o) ==
    IF o.kind = "fenced"
    THEN o.pre \o <<FenceOpen>> \o o.body \o <<FenceClose>> \o o.post
    ELSE o.pre \o o.body \o o.post

\* ---------------------------------------------------------- remote caller
\* line 7 sets the key in the environment before the service reads it
ApiKeyConfigured == TRUE

\* _call_gemini_api that hands back the body of a failed response
CallGeminiApiReturnsBody(outcome) ==
    IF outcome.kind = "ok" THEN Str(outcome.text) ELSE Str(<<Word>>)

\* the body of a 200 response whose first candidate's first part has a text
Body(text) ==
    Obj(<<Member("candidates", List(<<
        Obj(<<Member("content", Obj(<<
            Member("parts", List(<<Obj(<<Member("text", Str(text))>>)>>))>>))>>)>>))>>)

\* bodies of 200 responses without a text: no candidates key, an empty list
\* of candidates, a first candidate without content, content without parts,
\* an empty list of parts, a first part without text
NoTextBodies ==
    {Obj(<<>>),
     Obj(<<Member("candidates", List(<<>>))>>),
     Obj(<<Member("candidates", List(<<Obj(<<Member("finishReason", Str(<<[t |-> "word"]>>))>>)>>))>>),
     Obj(<<Member("candidates", List(<<Obj(<<Member("content", Obj(<<>>))>>)>>))>>),
     Obj(<<Member("candidates", List(<<
         Obj(<<Member("content", Obj(<<Member("parts", List(<<>>))>>))>>)>>))>>),
     Obj(<<Member("candidates", List(<<
         Obj(<<Member("content", Obj(<<
             Member("parts", List(<<Obj(<<Member("inlineData", Obj(<<>>))>>)>>))>>))>>)>>))>>)}

\* response.json() of a 200 response
ResponseJson(outcome) == IF outcome.kind = "ok" THEN Body(outcome.text) ELSE outcome.body

\* lines 163-169: parts[0]['text'] of candidates[0]['content'], else None
ResponseText(response_data) ==
    LET candidates == DictGet(response_data.members, "candidates", List(<<>>))
    IN  IF Truthy(candidates) /\ HasKey(candidates.items[1].members, "content")
        THEN LET content == DictGet(candidates.items[1].members, "content", Null)
                 parts == DictGet(content.members, "parts", List(<<>>))
             IN  IF Truthy(parts) /\ HasKey(parts.items[1].members, "text")
                 THEN DictGet(parts.items[1].members, "text", Null)
                 ELSE Null
        ELSE Null

\* _call_gemini_api: the text of the first part of the first candidate of a
\* 200 response, None for every other outcome (and nothing is raised)
CallGeminiApi(outcome) ==
    IF outcome.kind \in {"ok", "ok_no_text"}
    THEN ResponseText(ResponseJson(outcome))
    ELSE Null

\* grade_assignment that tests the response for None only
GradeAssignmentParsesEmptyText(outcome, total_marks) ==
    IF ~ApiKeyConfigured
    THEN CreateErrorResult(<<Lit("Gemini API key not configured")>>)
    ELSE LET response == CallGeminiApi(outcome)
         IN  IF response # Null
             THEN ParseGradingResponse(response.s, total_marks)
             ELSE CreateErrorResult(<<Lit("Failed to get response from Gemini AI")>>)

\* grade_assignment, given the outcome of its one HTTP request
GradeAssignment(outcome, total_marks) ==
    IF ~ApiKeyConfigured
    THEN CreateErrorResult(<<Lit("Gemini API key not configured")>>)
    ELSE LET response == CallGeminiApi(outcome)
         IN  IF Truthy(response)
             THEN ParseGradingResponse(response.s, total_marks)
             ELSE CreateErrorResult(<<Lit("Failed to get response from Gemini AI")>>)

\* ------------------------------------------------------------------ app.py
\* extensions of the files a user may offer: two document types, two image
\* types, one of them in upper case, and a type nobody supports
Extensions == {"docx", "doc", "jpg", "PNG", "txt"}
\* str.lower() of an extension
Lower == [e \in Extensions |-> IF e = "PNG" THEN "png" ELSE e]

\* st.file_uploader(type=[...]): the extensions the widget lets through
UploadTypes == {"pdf", "docx", "jpg", "jpeg", "png"}
\* the widget compares the lower-cased extension of the name with its list
UploaderAccepts(file) == Lower[file.ext] \in UploadTypes

\* helpers.validate_file_type: the extension, lower-cased, looked up in
\* supported_types; None for any other
SupportedTypes ==
    [e \in {"pdf", "docx", "doc", "jpg", "jpeg", "png"} |->
        IF e = "doc" THEN "docx" ELSE e]
ValidateFileType(file) ==
    IF Lower[file.ext] \in DOMAIN SupportedTypes
    THEN Str(<<Lit(SupportedTypes[Lower[file.ext]])>>)
    ELSE Null

IsImage(file_type) == file_type \in {Str(<<Lit(e)>>) : e \in {"jpg", "jpeg", "png"}}

\* file_type or 'unknown'
TypeOrUnknown(file_type) == IF Truthy(file_type) THEN file_type ELSE Str(<<Lit("unknown")>>)

PreviewLength == 500
\* text_content[:500] + "..." if len(text_content) > 500 else text_content
TextPreview(text) ==
    IF Len(text) > PreviewLength
    THEN Slice(text, 0, PreviewLength) \o <<Lit("...")>>
    ELSE text

\* not text_content or not text_content.strip()
NoText(text_content) == ~Truthy(text_content) \/ Strip(text_content.s) = <<>>

\* lines 231-241
NoTextResult(file, total_marks) ==
    [filename |-> file,
     file_type |-> TypeOrUnknown(ValidateFileType(file)),
     total_marks |-> total_marks,
     awarded_marks |-> Int2Num(0),
     percentage |-> Int2Num(0),
     feedback |-> <<Lit("No text content could be extracted from this file.")>>,
     criteria_breakdown |-> Obj(<<>>),
     questions |-> List(<<>>),
     text_content |-> <<Lit("No content available")>>]

\* lines 253-263
\* GradedResult that passes the percentage of the grading result on
GradedResultKeepsReplyPercentage(file, text_content, grading_result, total_marks) ==
    [filename |-> file,
     file_type |-> ValidateFileType(file),
     total_marks |-> total_marks,
     awarded_marks |-> grading_result.total_score,
     percentage |-> grading_result.percentage,
     feedback |-> grading_result.feedback,
     criteria_breakdown |-> grading_result.criteria_scores,
     questions |-> grading_result.questions,
     text_content |-> TextPreview(text_content.s)]

GradedResult(file, text_content, grading_result, total_marks) ==
    [filename |-> file,
     file_type |-> ValidateFileType(file),
     total_marks |-> total_marks,
     awarded_marks |-> grading_result.total_score,
     percentage |->
         PyMul(PyDiv(grading_result.total_score, Int2Num(total_marks)), Int2Num(100)),
     feedback |-> grading_result.feedback,
     criteria_breakdown |-> grading_result.criteria_scores,
     questions |-> grading_result.questions,
     text_content |-> TextPreview(text_content.s)]

\* lines 269-279
ExceptionResult(file, total_marks, message) ==
    [filename |-> file,
     file_type |-> TypeOrUnknown(ValidateFileType(file)),
     total_marks |-> total_marks,
     awarded_marks |-> Int2Num(0),
     percentage |-> Int2Num(0),
     feedback |-> <<Lit("Error processing file: ")>> \o message,
     criteria_breakdown |-> Obj(<<>>),
     questions |-> List(<<>>),
     text_content |-> <<Lit("Error occurred during processing")>>]

\* --------------------------------------------------------- excel_export.py
\* result.get(key, default) on a per-file result
ResultGet(result, key, default) == IF key \in DOMAIN result THEN result[key] ELSE default

\* _calculate_letter_grade
CalculateLetterGrade(percentage) ==
    IF PyLe(Int2Num(90), percentage) THEN "A"
    ELSE IF PyLe(Int2Num(80), percentage) THEN "B"
    ELSE IF PyLe(Int2Num(70), percentage) THEN "C"
    ELSE IF PyLe(Int2Num(60), percentage) THEN "D"
    ELSE "F"

\* ------------------------------------------------------------- helpers.py
\* f"{percentage:.1f}": the nearest tenth, a tie going to the even digit
\* (the model rounds the exact value, Python the binary float)
RoundTenths(percentage) ==
    IF percentage.ty # "num" THEN percentage
    ELSE LET f == (10 * percentage.n) \div percentage.d
             r == 10 * percentage.n - f * percentage.d
             up == 2 * r > percentage.d \/ (2 * r = percentage.d /\ f % 2 = 1)
         IN  Rat(IF up THEN f + 1 ELSE f, 10)

\* format_grade_display with > in place of >= at the first boundary
FormatGradeDisplayStrictBoundary(percentage) ==
    (IF PyLt(Int2Num(90), percentage) THEN <<Lit("A")>>
     ELSE IF PyLe(Int2Num(80), percentage) THEN <<Lit("B")>>
     ELSE IF PyLe(Int2Num(70), percentage) THEN <<Lit("C")>>
     ELSE IF PyLe(Int2Num(60), percentage) THEN <<Lit("D")>>
     ELSE <<Lit("F")>>)
        \o <<Lit(" ("), NumTok(RoundTenths(percentage)), Lit("%)")>>

\* format_grade_display: the letter, then the percentage with one decimal
FormatGradeDisplay(percentage) ==
    (IF PyLe(Int2Num(90), percentage) THEN <<Lit("A")>>
     ELSE IF PyLe(Int2Num(80), percentage) THEN <<Lit("B")>>
     ELSE IF PyLe(Int2Num(70), percentage) THEN <<Lit("C")>>
     ELSE IF PyLe(Int2Num(60), percentage) THEN <<Lit("D")>>
     ELSE <<Lit("F")>>)
        \o <<Lit(" ("), NumTok(RoundTenths(percentage)), Lit("%)")>>

Letters == {"A", "B", "C", "D", "F"}

\* calculate_grade_distribution: the loop over the percentages
RECURSIVE CalculateGradeDistribution(_)
CalculateGradeDistribution(percentages) ==
    IF percentages = <<>>
    THEN [g \in Letters |-> 0]
    ELSE LET distribution ==
                 CalculateGradeDistribution(SubSeq(percentages, 1, Len(percentages) - 1))
             percentage == percentages[Len(percentages)]
         IN  IF PyLe(Int2Num(90), percentage) THEN [distribution EXCEPT !["A"] = @ + 1]
             ELSE IF PyLe(Int2Num(80), percentage) THEN [distribution EXCEPT !["B"] = @ + 1]
             ELSE IF PyLe(Int2Num(70), percentage) THEN [distribution EXCEPT !["C"] = @ + 1]
             ELSE IF PyLe(Int2Num(60), percentage) THEN [distribution EXCEPT !["D"] = @ + 1]
             ELSE [distribution EXCEPT !["F"] = @ + 1]

\* ------------------------------------------------- excel_export.py, the rows
\* '; '.join(items) for a list of strings
JoinItems(list) == Join([i \in 1..Len(list.items) |-> list.items[i].s], <<Lit("; ")>>)

\* str.upper() of a file type
UpperCase ==
    [e \in {"pdf", "docx", "jpg", "jpeg", "png", "unknown"} |->
        CASE e = "pdf" -> "PDF" [] e = "docx" -> "DOCX" [] e = "jpg" -> "JPG"
          [] e = "jpeg" -> "JPEG" [] e = "png" -> "PNG" [] OTHER -> "UNKNOWN"]
Upper(file_type) == Str(<<Lit(UpperCase[Head(file_type.s).s])>>)

\* _create_summary_sheet: the per-file rows (score text, statistics and
\* metadata rows are not modelled)
SummaryRow(result) ==
    [student_file |-> result.filename,
     letter_grade |-> CalculateLetterGrade(result.percentage),
     file_type |-> Upper(result.file_type),
     status |-> "Graded"]

\* _create_detailed_sheet: one row per result (the rounded percentage column
\* is not modelled)
DetailedRow(result) ==
    [student_file |-> result.filename,
     total_score |-> result.awarded_marks,
     max_score |-> result.total_marks,
     letter_grade |-> CalculateLetterGrade(result.percentage),
     feedback |-> ResultGet(result, "feedback", <<>>),
     strengths |-> JoinItems(ResultGet(result, "strengths", List(<<>>))),
     areas_for_improvement |->
         JoinItems(ResultGet(result, "areas_for_improvement", List(<<>>))),
     grade_justification |-> ResultGet(result, "grade_justification", Str(<<>>)),
     file_type |-> Upper(result.file_type)]

\* _create_criteria_sheet, lines 135-147: the criteria named by the results
\* that have a truthy 'criteria_scores'
AllCriteria(results) ==
    UNION {{ResultGet(results[i], "criteria_scores", Null).members[k].k :
               k \in 1..Len(ResultGet(results[i], "criteria_scores", Null).members)} :
           i \in {j \in 1..Len(results) :
                     Truthy(ResultGet(results[j], "criteria_scores", Null))}}

\* lines 150-159: a row of the criteria sheet
CriteriaRow(result, all_criteria) ==
    [student_file |-> result.filename,
     scores |-> [c \in all_criteria |->
                    DictGet(ResultGet(result, "criteria_scores", Obj(<<>>)).members,
                            c, Int2Num(0))],
     total |-> result.awarded_marks]

\* _create_criteria_sheet: the rows written, <<>> when the sheet is not made
CriteriaSheet(results) ==
    IF AllCriteria(results) = {} THEN <<>>
    ELSE [i \in 1..Len(results) |-> CriteriaRow(results[i], AllCriteria(results))]

\* _create_questions_sheet: the rows of one result
QuestionRows(result) ==
    LET questions == ResultGet(result, "questions", List(<<>>))
    IN  IF ~Truthy(questions)
        THEN <<[student_file |-> result.filename,
                question_number |-> Str(<<Lit("Overall")>>),
                score_awarded |-> result.awarded_marks,
                max_score |-> Int2Num(result.total_marks)]>>
        ELSE [q \in 1..Len(questions.items) |->
                 [student_file |-> result.filename,
                  question_number |-> DictGet(questions.items[q].members,
                                              "question_number", Str(<<Lit("N/A")>>)),
                  score_awarded |-> DictGet(questions.items[q].members, "score", Int2Num(0)),
                  max_score |-> DictGet(questions.items[q].members, "max_score",
                                        Int2Num(0))]]

RECURSIVE QuestionsSheet(_)
QuestionsSheet(results) ==
    IF results = <<>> THEN <<>>
    ELSE QuestionRows(Head(results)) \o QuestionsSheet(Tail(results))

\* an exception inside the sheets: a questions value that is not a list of
\* objects (question.get raises)
ReportRaises(results) ==
    \E i \in 1..Len(results) :
        LET questions == ResultGet(results[i], "questions", List(<<>>))
        IN  /\ Truthy(questions)
            /\ \/ questions.ty # "list"
               \/ \E q \in 1..Len(questions.items) : questions.items[q].ty # "obj"

\* create_excel_report: the workbook, None when a sheet raised (line 50)
CreateExcelReport(results) ==
    IF ReportRaises(results) THEN Null
    ELSE [ty |-> "workbook",
          sheets |-> {"Summary", "Detailed Results"}
                        \cup (IF CriteriaSheet(results) # <<>>
                              THEN {"Criteria Breakdown"} ELSE {})
                        \cup (IF QuestionsSheet(results) # <<>>
                              THEN {"Questions Breakdown"} ELSE {}),
          summary |-> [i \in 1..Len(results) |-> SummaryRow(results[i])],
          detailed |-> [i \in 1..Len(results) |-> DetailedRow(results[i])],
          criteria |-> CriteriaSheet(results),
          questions |-> QuestionsSheet(results)]

\* sum(custom_criteria.values())
RECURSIVE SumMarks(_)
SumMarks(criteria) ==
    IF criteria = <<>> THEN 0 ELSE Head(criteria).v + SumMarks(Tail(criteria))

\* ------------------------------------------------------------------- state
VARIABLES
    total_marks,          \* sidebar: total marks of the assignment
    use_custom_criteria,  \* sidebar: the custom criteria checkbox
    custom_criteria,      \* sidebar: criterion name -> marks
    uploaded_files,       \* the uploaded batch, in upload order
    pc,                   \* where main() stands
    idx,                  \* enumerate index of the file being processed
    progress,             \* value shown by the progress bar
    all_results,          \* main's list of per-file results
    text_content,         \* process_single_file: the extracted text
    outcome,              \* outcome of the current file's grading request
    grading_result,       \* process_single_file: what grade_assignment returned
    http_log,             \* every HTTP request issued, in order
    origin,               \* normalizer call: how the reply text was put together
    response,             \* normalizer call: the reply text
    normalized_result,    \* normalizer call: what _parse_grading_response returned
    excel_data,           \* main: what create_excel_report returned (None before)
    percentages,          \* grade functions: the percentages given to them
    grade_display,        \* what format_grade_display returned for each
    letter_grades,        \* what _calculate_letter_grade returned for each
    grade_distribution    \* what calculate_grade_distribution returned

vars ==
    <<total_marks, use_custom_criteria, custom_criteria, uploaded_files, pc, idx,
      progress, all_results, text_content, outcome, grading_result, http_log,
      origin, response, normalized_result, excel_data,
      percentages, grade_display, letter_grades, grade_distribution>>

config == <<total_marks, use_custom_criteria, custom_criteria, uploaded_files>>
normalizer == <<origin, response, normalized_result>>
grades == <<percentages, grade_display, letter_grades, grade_distribution>>

\* ------------------------------------------------------- environment inputs
File(stem, ext) == [stem |-> stem, ext |-> ext]
Files == {File("a", e) : e \in Extensions}

\* totals of a run: the least the sidebar accepts and the largest in bound
BatchTotalMarks == {1, MaxTotalMarks}

\* text the local libraries or the OCR model find in a file
RawTexts == {<<>>, <<Ws>>, <<Ws, Word, Ws>>}

\* a reply with every field of the requested schema and the given score
SchemaReply(score) ==
    <<LBrace, Member("total_score", score), Member("percentage", Int2Num(50)),
      Member("overall_feedback", Str(<<Word>>)),
      Member("strengths", List(<<Str(<<Word>>), Str(<<Word, Ws, Word>>)>>)),
      Member("areas_for_improvement", List(<<Str(<<Word>>)>>)),
      Member("criteria_scores", Obj(<<Member("Criterion 1", Int2Num(1))>>)),
      Member("questions", List(<<OneQuestion>>)),
      Member("grade_justification", Str(<<Word>>)), RBrace>>

\* replies of the grading model during a run: objects with a score below,
\* inside and above the range, nan and null scores, a fenced object, texts
\* with and without a score pattern, and the empty text
BatchReplies ==
    {SchemaReply(v) : v \in {Int2Num(-1), Int2Num(1), Int2Num(MaxTotalMarks + 1), NaN, Null}}
        \cup {<<Word, Ws, FenceOpen>> \o SchemaReply(Int2Num(1)) \o <<FenceClose>>,
              <<Kw, Colon, Ws, NumTok(1), Slash, NumTok(2)>>,
              <<Word, Ws, Word>>,
              <<>>}

\* outcomes of requests.post as the callers tell them apart
FailedOutcomes == {[kind |-> "exception"], [kind |-> "non200"], [kind |-> "ok_no_text"]}
\* for the grading request the 200 responses without a text carry their body
GradeFailedOutcomes ==
    {[kind |-> "exception"], [kind |-> "non200"]}
        \cup {[kind |-> "ok_no_text", body |-> b] : b \in NoTextBodies}
GradeOutcomes == GradeFailedOutcomes \cup {[kind |-> "ok", text |-> r] : r \in BatchReplies}
OcrOutcomes == FailedOutcomes \cup {[kind |-> "ok", text |-> t] : t \in RawTexts}

\* sidebar settings: criteria off, criteria within the total, criteria whose
\* sum exceeds the total (each single criterion is at most the total)
CriteriaSettings(total) ==
    {[use |-> FALSE, criteria |-> <<>>],
     [use |-> TRUE, criteria |-> <<Member("Criterion 1", total)>>],
     [use |-> TRUE, criteria |-> <<Member("Criterion 1", total), Member("Criterion 2", 1)>>]}

NoOrigin == [kind |-> "none"]

\* a local of process_single_file that was never assigned
Unbound == [ty |-> "unbound"]

\* ---------------------------------------------------------------- the run
Init ==
    /\ total_marks \in BatchTotalMarks
    /\ \E c \in CriteriaSettings(total_marks) :
          /\ use_custom_criteria = c.use
          /\ custom_criteria = c.criteria
    /\ uploaded_files = <<>>
    /\ pc = "idle"
    /\ idx = 0
    /\ progress = Null
    /\ all_results = <<>>
    /\ text_content = Null
    /\ outcome = Null
    /\ grading_result = Null
    /\ http_log = <<>>
    /\ origin = NoOrigin
    /\ response = Null
    /\ normalized_result = Null
    /\ excel_data = Null
    /\ percentages = <<>>
    /\ grade_display = Null
    /\ letter_grades = Null
    /\ grade_distribution = Null

CurrentFile == uploaded_files[idx + 1]

\* lines 111-116: the user offers one more file to the uploader, which takes
\* it when its type is in the list (names within a batch are distinct)
UploadFile(file) ==
    /\ pc = "idle"
    /\ Len(uploaded_files) < MaxFiles
    /\ \A i \in 1..Len(uploaded_files) : uploaded_files[i] # file
    /\ UploaderAccepts(file)
    /\ uploaded_files' = Append(uploaded_files, file)
    /\ UNCHANGED <<total_marks, use_custom_criteria, custom_criteria, pc, idx, progress,
                   all_results, text_content, outcome, grading_result, http_log,
                   normalizer, grades, excel_data>>

Upload == \E file \in Files : UploadFile(file)

\* ClickGrade without the validation of lines 158-160
ClickGradeSkipsValidation ==
    /\ pc = "idle"
    /\ uploaded_files # <<>>
    /\ pc' = "loop"
    /\ all_results' = <<>>
    /\ UNCHANGED <<config, idx, progress, text_content, outcome, grading_result,
                   http_log, normalizer, grades, excel_data>>

\* lines 156-167: the button; a criteria sum above the total ends the handler
ClickGrade ==
    /\ pc = "idle"
    /\ uploaded_files # <<>>
    /\ IF use_custom_criteria /\ SumMarks(custom_criteria) > total_marks
       THEN pc' = "rejected" /\ UNCHANGED all_results
       ELSE pc' = "loop" /\ all_results' = <<>>
    /\ UNCHANGED <<config, idx, progress, text_content, outcome, grading_result,
                   http_log, normalizer, grades, excel_data>>

\* AfterExtraction that tests the text for None only, not for emptiness
AfterExtractionGradesEmpty(text, log) ==
    /\ text_content' = text
    /\ IF text = Null
       THEN /\ all_results' = Append(all_results, NoTextResult(CurrentFile, total_marks))
            /\ idx' = idx + 1
            /\ pc' = "loop"
            /\ http_log' = log
       ELSE /\ http_log' = Append(log, [file |-> idx, kind |-> "grade"])
            /\ pc' = "grading"
            /\ UNCHANGED <<all_results, idx>>

\* the rest of process_single_file once the text is known (lines 229-250):
\* a zero result without a request, or the grading request is sent
AfterExtraction(text, log) ==
    /\ text_content' = text
    /\ IF NoText(text)
       THEN /\ all_results' = Append(all_results, NoTextResult(CurrentFile, total_marks))
            /\ idx' = idx + 1
            /\ pc' = "loop"
            /\ http_log' = log
       ELSE IF ~ApiKeyConfigured
       THEN /\ all_results' = Append(all_results,
                 GradedResult(CurrentFile, text,
                     CreateErrorResult(<<Lit("Gemini API key not configured")>>), total_marks))
            /\ idx' = idx + 1
            /\ pc' = "loop"
            /\ http_log' = log
       ELSE /\ http_log' = Append(log, [file |-> idx, kind |-> "grade"])
            /\ pc' = "grading"
            /\ UNCHANGED <<all_results, idx>>

\* file_processor.extract_text: the stripped text, None when the type is
\* neither pdf nor docx or the library raises
ExtractText(file_type, raw) ==
    IF file_type \in {Str(<<Lit("pdf")>>), Str(<<Lit("docx")>>)} /\ raw # Null
    THEN Str(Strip(raw.s))
    ELSE Null

\* lines 170-250 for a pdf or docx file: progress, local extraction, request
StartDocument ==
    /\ pc = "loop"
    /\ idx < Len(uploaded_files)
    /\ ~IsImage(ValidateFileType(CurrentFile))
    /\ progress' = Rat(idx, Len(uploaded_files))
    /\ \E raw \in {Null} \cup {Str(t) : t \in RawTexts} :
          AfterExtraction(ExtractText(ValidateFileType(CurrentFile), raw), http_log)
    /\ outcome' = Null
    /\ grading_result' = Null
    /\ UNCHANGED <<config, normalizer, grades, excel_data>>

\* StartImage without the test of line 222: every file goes to the OCR service
StartImageForAnyFile ==
    /\ pc = "loop"
    /\ idx < Len(uploaded_files)
    /\ progress' = Rat(idx, Len(uploaded_files))
    /\ \E readable \in BOOLEAN :
          IF ApiKeyConfigured /\ readable
          THEN /\ http_log' = Append(http_log, [file |-> idx, kind |-> "ocr"])
               /\ pc' = "ocr"
               /\ UNCHANGED <<all_results, idx, text_content>>
          ELSE AfterExtraction(Null, http_log)
    /\ outcome' = Null
    /\ grading_result' = Null
    /\ UNCHANGED <<config, normalizer, grades, excel_data>>

\* lines 170-224 and ocr_service lines 32-96 for an image: progress, the image
\* is re-encoded (which may fail) and the OCR request is sent
StartImage ==
    /\ pc = "loop"
    /\ idx < Len(uploaded_files)
    /\ IsImage(ValidateFileType(CurrentFile))
    /\ progress' = Rat(idx, Len(uploaded_files))
    /\ \E readable \in BOOLEAN :
          IF ApiKeyConfigured /\ readable
          THEN /\ http_log' = Append(http_log, [file |-> idx, kind |-> "ocr"])
               /\ pc' = "ocr"
               /\ UNCHANGED <<all_results, idx, text_content>>
          ELSE AfterExtraction(Null, http_log)
    /\ outcome' = Null
    /\ grading_result' = Null
    /\ UNCHANGED <<config, normalizer, grades, excel_data>>

\* ocr_service lines 98-115: the stripped text of a 200 response, else None
OcrText(o) == IF o.kind = "ok" /\ Strip(o.text) # <<>> THEN Str(Strip(o.text)) ELSE Null

\* the OCR request returns; process_single_file goes on to line 229
OcrReturns ==
    /\ pc = "ocr"
    /\ \E o \in OcrOutcomes : AfterExtraction(OcrText(o), http_log)
    /\ UNCHANGED <<config, progress, outcome, grading_result, normalizer, grades, excel_data>>

\* GradingReturns with a retry: a failed request is sent once more
GradingReturnsRetries ==
    /\ pc = "grading"
    /\ \E o \in GradeOutcomes :
          IF o \in GradeFailedOutcomes /\ Len(http_log) < 2 * MaxFiles
          THEN /\ http_log' = Append(http_log, [file |-> idx, kind |-> "grade"])
               /\ outcome' = o
               /\ UNCHANGED <<grading_result, all_results, idx, pc>>
          ELSE /\ outcome' = o
               /\ grading_result' = GradeAssignment(o, total_marks)
               /\ all_results' = Append(all_results,
                      GradedResult(CurrentFile, text_content,
                                   GradeAssignment(o, total_marks), total_marks))
               /\ idx' = idx + 1
               /\ pc' = "loop"
               /\ UNCHANGED http_log
    /\ UNCHANGED <<config, progress, text_content, normalizer, grades, excel_data>>

\* GradingReturns for a request sent without the timeout of line 159: the
\* call may block for ever
GradingReturnsMayHang ==
    /\ pc = "grading"
    /\ \/ /\ \E o \in GradeOutcomes :
               /\ outcome' = o
               /\ grading_result' = GradeAssignment(o, total_marks)
               /\ all_results' = Append(all_results,
                      GradedResult(CurrentFile, text_content,
                                   GradeAssignment(o, total_marks), total_marks))
          /\ idx' = idx + 1
          /\ pc' = "loop"
       \/ /\ pc' = "blocked"
          /\ UNCHANGED <<outcome, grading_result, all_results, idx>>
    /\ UNCHANGED <<config, progress, text_content, http_log, normalizer, grades, excel_data>>

\* GradingReturns with state shared across files: a failed call falls back
\* on the marks of the file before
GradingReturnsSharesState ==
    /\ pc = "grading"
    /\ \E o \in GradeOutcomes :
          LET own == GradeAssignment(o, total_marks)
              res == IF o \in GradeFailedOutcomes /\ all_results # <<>>
                     THEN [own EXCEPT !.total_score =
                              all_results[Len(all_results)].awarded_marks]
                     ELSE own
          IN  /\ outcome' = o
              /\ grading_result' = res
              /\ all_results' = Append(all_results,
                     GradedResult(CurrentFile, text_content, res, total_marks))
    /\ idx' = idx + 1
    /\ pc' = "loop"
    /\ UNCHANGED <<config, progress, text_content, http_log, normalizer, grades, excel_data>>

\* the grading request returns; grade_assignment normalizes, the result is
\* built (lines 253-265) and appended (line 188)
GradingReturns ==
    /\ pc = "grading"
    /\ \E o \in GradeOutcomes :
          /\ outcome' = o
          /\ grading_result' = GradeAssignment(o, total_marks)
          /\ all_results' = Append(all_results,
                 GradedResult(CurrentFile, text_content,
                              GradeAssignment(o, total_marks), total_marks))
    /\ idx' = idx + 1
    /\ pc' = "loop"
    /\ UNCHANGED <<config, progress, text_content, http_log, normalizer, grades, excel_data>>

\* ProcessingRaises without the handler of lines 267-279: the exception
\* reaches main's handler (line 209), which ends the run
ProcessingRaisesAborts ==
    /\ pc = "loop"
    /\ idx < Len(uploaded_files)
    /\ pc' = "done"
    /\ progress' = Rat(idx, Len(uploaded_files))
    /\ UNCHANGED <<config, idx, all_results, text_content, outcome, grading_result,
                   http_log, normalizer, grades, excel_data>>

\* an exception escapes from extraction into the handler of lines 267-279
\* (the services report their own failures through the UI library, whose
\* calls may raise)
ProcessingRaises ==
    /\ pc = "loop"
    /\ idx < Len(uploaded_files)
    /\ all_results' = Append(all_results,
           ExceptionResult(CurrentFile, total_marks, <<Lit("str(e)")>>))
    /\ idx' = idx + 1
    /\ pc' = "loop"
    /\ progress' = Rat(idx, Len(uploaded_files))
    /\ text_content' = Unbound
    /\ outcome' = Null
    /\ grading_result' = Null
    /\ UNCHANGED <<config, http_log, normalizer, grades, excel_data>>

\* lines 190-207: the loop is over; the results are shown and, when the
\* export checkbox is set, the workbook is built
Finish ==
    /\ pc = "loop"
    /\ idx = Len(uploaded_files)
    /\ progress' = Int2Num(1)
    /\ pc' = "done"
    /\ \E export_to_excel \in BOOLEAN :
          excel_data' = IF all_results # <<>> /\ export_to_excel
                        THEN CreateExcelReport(all_results)
                        ELSE Null
    /\ UNCHANGED <<config, idx, all_results, text_content, outcome, grading_result,
                   http_log, normalizer, grades>>

Next ==
    \/ Upload
    \/ ClickGrade
    \/ StartDocument
    \/ StartImage
    \/ OcrReturns
    \/ GradingReturns
    \/ ProcessingRaises
    \/ Finish

Spec == Init /\ [][Next]_vars

\* ------------------------------------------------ the normalizer on its own
NormalizerInit ==
    /\ total_marks \in TotalMarksValues
    /\ origin \in Origins
    /\ response = Str(ReplyText(origin))
    /\ normalized_result = Null
    /\ pc = "call"
    /\ use_custom_criteria = FALSE
    /\ custom_criteria = <<>>
    /\ uploaded_files = <<>>
    /\ idx = 0
    /\ progress = Null
    /\ all_results = <<>>
    /\ text_content = Null
    /\ outcome = Null
    /\ grading_result = Null
    /\ http_log = <<>>
    /\ excel_data = Null
    /\ percentages = <<>>
    /\ grade_display = Null
    /\ letter_grades = Null
    /\ grade_distribution = Null

\* one call of _parse_grading_response(response, total_marks, custom_criteria)
Normalize ==
    /\ pc = "call"
    /\ normalized_result' = ParseGradingResponse(response.s, total_marks)
    /\ pc' = "returned"
    /\ UNCHANGED <<config, idx, progress, all_results, text_content, outcome,
                   grading_result, http_log, origin, response, excel_data, grades>>

NormalizerNext == Normalize

NormalizerSpec == NormalizerInit /\ [][NormalizerNext]_vars

\* --------------------------------------------- the grade functions on their own
\* percentages on and next to each boundary, the ends of the scale, a value
\* below zero, a value that rounds up to a boundary, and nan
Percentages ==
    {Int2Num(-100), Int2Num(0), Rat(599, 10), Int2Num(60), Rat(699, 10), Int2Num(70),
     Rat(799, 10), Int2Num(80), Rat(8996, 100), Int2Num(90), Int2Num(100), NaN}

PercentageLists == UNION {[1..n -> Percentages] : n \in 0..MaxFiles}

GradeInit ==
    /\ percentages \in PercentageLists
    /\ grade_display = Null
    /\ letter_grades = Null
    /\ grade_distribution = Null
    /\ pc = "grades"
    /\ total_marks = 1
    /\ use_custom_criteria = FALSE
    /\ custom_criteria = <<>>
    /\ uploaded_files = <<>>
    /\ idx = 0
    /\ progress = Null
    /\ all_results = <<>>
    /\ text_content = Null
    /\ outcome = Null
    /\ grading_result = Null
    /\ http_log = <<>>
    /\ origin = NoOrigin
    /\ response = Null
    /\ normalized_result = Null
    /\ excel_data = Null

\* display_results: format_grade_display of each percentage
ShowGrades ==
    /\ pc = "grades"
    /\ grade_display = Null
    /\ grade_display' =
          List([i \in 1..Len(percentages) |-> FormatGradeDisplay(percentages[i])])
    /\ UNCHANGED <<config, pc, idx, progress, all_results, text_content, outcome,
                   grading_result, http_log, normalizer, excel_data, percentages,
                   letter_grades, grade_distribution>>

\* the export: _calculate_letter_grade of each percentage
ExportGrades ==
    /\ pc = "grades"
    /\ letter_grades = Null
    /\ letter_grades' =
          List([i \in 1..Len(percentages) |-> CalculateLetterGrade(percentages[i])])
    /\ UNCHANGED <<config, pc, idx, progress, all_results, text_content, outcome,
                   grading_result, http_log, normalizer, excel_data, percentages,
                   grade_display, grade_distribution>>

\* calculate_statistics: calculate_grade_distribution of the percentages
CountGrades ==
    /\ pc = "grades"
    /\ grade_distribution = Null
    /\ grade_distribution' =
          [ty |-> "distribution", count |-> CalculateGradeDistribution(percentages)]
    /\ UNCHANGED <<config, pc, idx, progress, all_results, text_content, outcome,
                   grading_result, http_log, normalizer, excel_data, percentages,
                   grade_display, letter_grades>>

GradeNext == ShowGrades \/ ExportGrades \/ CountGrades

GradeSpec == GradeInit /\ [][GradeNext]_vars

\* =================================================================== claims
\* the reply of a normalizer call decoded as it stands, and what it says
ReplyDecoded == JsonLoads(response.s)
ReplyIsObject == ReplyDecoded.ok /\ ReplyDecoded.kind = "dict"
ReplyScore == DictGet(ReplyDecoded.members, "total_score", Int2Num(0))
ReplyPercentage == DictGet(ReplyDecoded.members, "percentage", Int2Num(0))
\* the reply's feedback fields have the types the prompt asks for, so that
\* _combine_feedback raises nothing
ReplyFeedbackWellTyped == CombineFeedbackError(ReplyDecoded.members) = "none"
Returned == pc = "returned"
Total == Int2Num(total_marks)
PercentOf(score) == PyMul(PyDiv(score, Total), Int2Num(100))

\* C1 as stated: every reply that is a JSON object with a numeric total_score
\* above total_marks is normalized to total_score = total_marks.
C1_ClampedForEveryObject ==
    (Returned /\ ReplyIsObject /\ PyGt(ReplyScore, Total))
        => normalized_result.total_score = Total

\* C1 as amended: a reply that is a JSON object with a numeric total_score
\* above total_marks and well-typed feedback fields is normalized to
\* total_score = total_marks.
C1_ClampedToTotal ==
    (Returned /\ ReplyIsObject /\ PyGt(ReplyScore, Total) /\ ReplyFeedbackWellTyped)
        => normalized_result.total_score = Total

\* C1 witness: a bare object with a score above the total has been clamped
C1_Witness ==
    /\ Returned
    /\ origin.kind = "bare"
    /\ ReplyIsObject
    /\ ReplyScore = Int2Num(total_marks + 1)
    /\ ReplyFeedbackWellTyped
    /\ normalized_result.total_score = Total

\* C2 as stated: every JSON object reply with a numeric total_score <=
\* total_marks keeps its score and gets percentage = score / total_marks * 100.
C2_ScoreAndPercentageForEveryScore ==
    (Returned /\ ReplyIsObject /\ PyLe(ReplyScore, Total))
        => /\ normalized_result.total_score = ReplyScore
           /\ normalized_result.percentage = PercentOf(ReplyScore)

\* C2 as amended: a JSON object reply with well-typed feedback fields and a
\* numeric total_score <= total_marks keeps its score; its percentage is
\* score / total_marks * 100 when the score is above 0 and the reply's own
\* percentage field (0 when absent) when the score is 0 or negative.
C2_ScoreKeptPercentageDerived ==
    (Returned /\ ReplyIsObject /\ PyLe(ReplyScore, Total) /\ ReplyFeedbackWellTyped)
        => /\ normalized_result.total_score = ReplyScore
           /\ PyGt(ReplyScore, Int2Num(0))
                 => normalized_result.percentage = PercentOf(ReplyScore)
           /\ ~PyGt(ReplyScore, Int2Num(0))
                 => normalized_result.percentage = ReplyPercentage

\* C2 witness: a score in range whose own percentage field disagrees has been
\* normalized to the derived percentage
C2_Witness ==
    /\ Returned
    /\ ReplyIsObject
    /\ ReplyFeedbackWellTyped
    /\ total_marks = 3
    /\ ReplyScore = Int2Num(3)
    /\ ReplyPercentage = Int2Num(50)
    /\ normalized_result.total_score = Int2Num(3)
    /\ normalized_result.percentage = Int2Num(100)

\* C5 as stated: for every JSON object reply (with a total_score that can be
\* clamped: a number, or absent) the result's percentage is clamped score /
\* total_marks * 100 when the clamped score is above 0, and otherwise the
\* reply's own percentage field (0 when absent).
C5_PercentageForEveryObject ==
    (Returned /\ ReplyIsObject /\ IsNumber(ReplyScore))
        => IF PyGt(PyMin(ReplyScore, Total), Int2Num(0))
           THEN normalized_result.percentage = PercentOf(PyMin(ReplyScore, Total))
           ELSE normalized_result.percentage = ReplyPercentage

\* C5 as amended: the same for a JSON object reply whose feedback fields are
\* also well typed, that is, whenever normalizing it raises nothing.
C5_PercentageRule ==
    (Returned /\ ReplyIsObject /\ IsNumber(ReplyScore) /\ ReplyFeedbackWellTyped)
        => IF PyGt(PyMin(ReplyScore, Total), Int2Num(0))
           THEN normalized_result.percentage = PercentOf(PyMin(ReplyScore, Total))
           ELSE normalized_result.percentage = ReplyPercentage

\* C5 witness: a score of 0 with a percentage field of 50 keeps the 50
C5_Witness ==
    /\ Returned
    /\ ReplyIsObject
    /\ ReplyFeedbackWellTyped
    /\ HasKey(ReplyDecoded.members, "total_score")
    /\ ReplyScore = Int2Num(0)
    /\ ReplyPercentage = Int2Num(50)
    /\ normalized_result.percentage = Int2Num(50)

\* C6: a JSON object wrapped in a ```json fence, with or without prose around
\* the fence, is normalized to exactly the result of the bare object.
C6_FencedEqualsBare ==
    (Returned /\ origin.kind = "fenced")
        => normalized_result = ParseGradingResponse(origin.body, total_marks)

\* C6 witness: a fenced object between prose that holds braces and a further
\* code block has been normalized to a clamped, non-error result
C6_Witness ==
    /\ Returned
    /\ origin.kind = "fenced"
    /\ origin.pre = <<LBrace, Word, RBrace, FenceClose, Ws>>
    /\ origin.post = <<Ws, FenceOpen, Word, FenceClose>>
    /\ DictGet(JsonLoads(origin.body).members, "total_score", Int2Num(0))
          = Int2Num(total_marks + 1)
    /\ normalized_result.total_score = Total
    /\ normalized_result.feedback = <<Word>>

\* the pattern a "text" reply carries: N, and M when "/M" follows directly
PatternN(body) == body[CHOOSE i \in 1..Len(body) :
                          body[i].t = "num" /\ \A h \in 1..(i - 1) : body[h].t # "num"].v
PatternHasM(body) == Len(body) >= 2 /\ body[Len(body) - 1].t = "/"
PatternM(body) == body[Len(body)].v

\* C7: when the reply is not JSON and its first score pattern is N/M with
\* M > 0, the fallback result has total_score = min(N / M * total_marks,
\* total_marks), and min(N, total_marks) when no /M follows; the percentage
\* is total_score / total_marks * 100 (score: 7/10 of 20 gives 14 and 70).
C7_FallbackRescales ==
    (Returned /\ origin.kind = "text" /\ origin.body \in ScoreTexts
              /\ ParsePath(response.s) = "fallback")
        => LET n == Int2Num(PatternN(origin.body))
               expected ==
                   IF PatternHasM(origin.body)
                   THEN PyMin(PyMul(PyDiv(n, Int2Num(PatternM(origin.body))), Total), Total)
                   ELSE PyMin(n, Total)
           IN  (PatternHasM(origin.body) => PatternM(origin.body) > 0)
                  => /\ normalized_result.total_score = expected
                     /\ normalized_result.percentage = PercentOf(expected)

\* C7 witness: the documented example, score: 7/10 with a total of 20
C7_Witness ==
    /\ Returned
    /\ origin.kind = "text"
    /\ origin.body = <<Kw, Colon, Ws, NumTok(7), Slash, NumTok(10)>>
    /\ total_marks = 20
    /\ ParsePath(response.s) = "fallback"
    /\ normalized_result.total_score = Int2Num(14)
    /\ normalized_result.percentage = Int2Num(70)

\* ---- claims about a grading run (Spec)
\* a file has just been processed: its result is the last of the list and
\* the locals of process_single_file are those of that file
FileDone == pc \in {"loop", "done"} /\ idx > 0 /\ Len(all_results) = idx
LastResult == all_results[Len(all_results)]
ExtractionFailed == NoText(text_content)
RemoteCallFailed == outcome # Null /\ (outcome.kind # "ok" \/ outcome.text = <<>>)
ReplyArrived == outcome # Null /\ outcome.kind = "ok" /\ outcome.text # <<>>
ParseFailed == ReplyArrived /\ ParsePath(outcome.text) # "structured"
FallbackFoundScore ==
    ReplyArrived /\ ParsePath(outcome.text) = "fallback" /\ ScoreFound(Strip(outcome.text))

\* C3: every per-file result satisfies awarded_marks <= total_marks.
C3_AwardedAtMostTotal ==
    \A i \in 1..Len(all_results) :
        PyLe(all_results[i].awarded_marks, Int2Num(all_results[i].total_marks))

\* C4: awarded_marks of every result lies in 0..total_marks: it is never
\* below 0 and never above total_marks.
C4_AwardedWithinRange ==
    \A i \in 1..Len(all_results) :
        /\ ~PyLt(all_results[i].awarded_marks, Int2Num(0))
        /\ ~PyGt(all_results[i].awarded_marks, Int2Num(all_results[i].total_marks))

\* C8: when the grading request fails with a network exception or a non-200
\* status, _call_gemini_api returns None and grade_assignment returns score
\* 0, percentage 0, empty collections and a feedback that starts with
\* "Error during grading:".
C8_FailedCallGivesErrorResult ==
    (outcome # Null /\ outcome.kind \in {"exception", "non200"})
        => /\ CallGeminiApi(outcome) = Null
           /\ grading_result.total_score = Int2Num(0)
           /\ grading_result.percentage = Int2Num(0)
           /\ grading_result.criteria_scores = Obj(<<>>)
           /\ grading_result.questions = List(<<>>)
           /\ grading_result.strengths = List(<<>>)
           /\ grading_result.areas_for_improvement = List(<<>>)
           /\ Len(grading_result.feedback) > 1
           /\ Head(grading_result.feedback) = Lit("Error during grading: ")

\* C8 witness: a network exception has produced the error result
C8_Witness ==
    /\ FileDone
    /\ outcome = [kind |-> "exception"]
    /\ grading_result.feedback
          = <<Lit("Error during grading: "), Lit("Failed to get response from Gemini AI")>>
    /\ LastResult.awarded_marks = Int2Num(0)

C10_OneResultPerFileInOrder ==
    /\ pc \in {"loop", "ocr", "grading", "done"}
          => /\ Len(all_results) = idx
             /\ \A i \in 1..Len(all_results) : all_results[i].filename = uploaded_files[i]
    /\ pc = "done" => Len(all_results) = Len(uploaded_files)
    /\ (pc = "loop" /\ idx < Len(uploaded_files)) => ENABLED (StartDocument \/ StartImage)

\* C10 witness: a run of two files has ended; the first file failed in
\* extraction and the second one was graded with marks
C10_Witness ==
    /\ pc = "done"
    /\ Len(uploaded_files) = 2
    /\ Len(all_results) = 2
    /\ all_results[1].feedback = <<Lit("No text content could be extracted from this file.")>>
    /\ all_results[2].filename = uploaded_files[2]
    /\ PyGt(all_results[2].awarded_marks, Int2Num(0))

\* the requests of one kind sent for the file with enumerate index i
Requests(i, kind) ==
    {k \in 1..Len(http_log) : http_log[k] = [file |-> i, kind |-> kind]}
ErrorIndicator == Lit("Error during grading: ")

\* C11: in a run at most one grading request is sent per uploaded file and
\* at most one OCR request per image file (none for a document); after a
\* failed grading call no further request is sent for the file, the file has
\* its error result and the loop stands at the next file; after an OCR call
\* without text the file has its zero result and no grading request.
C11_OneRequestPerFileNoRetry ==
    /\ \A i \in 0..(Len(uploaded_files) - 1) :
          /\ Cardinality(Requests(i, "grade")) <= 1
          /\ Cardinality(Requests(i, "ocr"))
                <= (IF IsImage(ValidateFileType(uploaded_files[i + 1])) THEN 1 ELSE 0)
    /\ (FileDone /\ RemoteCallFailed)
          => /\ Cardinality(Requests(idx - 1, "grade")) = 1
             /\ Head(LastResult.feedback) = ErrorIndicator
             /\ LastResult.awarded_marks = Int2Num(0)
             /\ LastResult.filename = uploaded_files[idx]
             /\ idx < Len(uploaded_files) => ENABLED (StartDocument \/ StartImage)
    /\ (FileDone /\ text_content = Null /\ Requests(idx - 1, "ocr") # {})
          => /\ Requests(idx - 1, "grade") = {}
             /\ LastResult = NoTextResult(uploaded_files[idx], total_marks)

\* C11 witness: the grading call of the first of two files failed, the
\* second file has been graded, and each file had one grading request
C11_Witness ==
    /\ pc = "done"
    /\ Len(uploaded_files) = 2
    /\ Len(all_results) = 2
    /\ all_results[1].feedback
          = <<ErrorIndicator, Lit("Failed to get response from Gemini AI")>>
    /\ PyGt(all_results[2].awarded_marks, Int2Num(0))
    /\ Cardinality(Requests(0, "grade")) = 1
    /\ Cardinality(Requests(1, "grade")) = 1

\* C12: when extraction returns nothing or only white space, the file's
\* result has awarded_marks 0, percentage 0 and the feedback 'No text content
\* could be extracted from this file.', and no grading request is sent for it.
C12_NoTextGivesZeroResultWithoutRequest ==
    (FileDone /\ text_content # Unbound /\ NoText(text_content))
        => /\ LastResult.awarded_marks = Int2Num(0)
           /\ LastResult.percentage = Int2Num(0)
           /\ LastResult.feedback
                 = <<Lit("No text content could be extracted from this file.")>>
           /\ LastResult.filename = uploaded_files[idx]
           /\ Requests(idx - 1, "grade") = {}

\* C12 witness: a document whose extracted text is empty after stripping has
\* its zero result and no request was sent
C12_Witness ==
    /\ FileDone
    /\ text_content = Str(<<>>)
    /\ LastResult = NoTextResult(uploaded_files[idx], total_marks)
    /\ http_log = <<>>

\* ---- claims about the paths of the normalizer (NormalizerSpec)
\* the reply as line 186 leaves it, and what json.loads makes of the text
\* lines 189-199 extract from it
Stripped == Strip(response.s)
Extracted == JsonLoads(JsonContent(Stripped))
FallbackJustification == Str(<<Lit("Grading performed using fallback text analysis.")>>)

\* C13: a reply that json.loads rejects and that holds no score/marks pattern
\* is normalized to the fallback result: total_score 0, percentage 0, the
\* stripped reply as feedback, empty collections; it is not the error result.
C13_NoPatternGivesZeroFallback ==
    (Returned /\ ~Extracted.ok /\ ~ScoreFound(Stripped))
        => /\ normalized_result.total_score = Int2Num(0)
           /\ normalized_result.percentage = Int2Num(0)
           /\ normalized_result.feedback = Stripped
           /\ normalized_result.criteria_scores = Obj(<<>>)
           /\ normalized_result.questions = List(<<>>)
           /\ normalized_result.strengths = List(<<>>)
           /\ normalized_result.areas_for_improvement = List(<<>>)
           /\ normalized_result.grade_justification = FallbackJustification

\* C13 witness: a text with a keyword and, after another word, a number (so
\* the pattern does not match) has been returned as feedback with score 0
C13_Witness ==
    /\ Returned
    /\ origin.kind = "text"
    /\ origin.pre = <<Kw, Ws, Word, Ws>>
    /\ origin.body = <<NumTok(7)>>
    /\ ~Extracted.ok
    /\ normalized_result.total_score = Int2Num(0)
    /\ normalized_result.feedback = <<Kw, Ws, Word, Ws, NumTok(7)>> \o origin.post
    /\ normalized_result.grade_justification = FallbackJustification

\* the canonical error result carrying the given message
ErrorResultWith(message) ==
    [total_score |-> Int2Num(0),
     percentage |-> Int2Num(0),
     feedback |-> <<ErrorIndicator>> \o message,
     criteria_scores |-> Obj(<<>>),
     questions |-> List(<<>>),
     strengths |-> List(<<>>),
     areas_for_improvement |-> List(<<>>),
     grade_justification |-> Str(<<Lit("Grading failed due to technical error.")>>)]

\* C14: when json.loads rejects the reply and the first score/marks match is
\* N/0, the rescaling divides by zero inside the fallback; the normalizer
\* raises nothing and returns the canonical error result with the feedback
\* 'Error during grading: Failed to parse grading response'.
C14_FailedFallbackGivesErrorResult ==
    (Returned /\ ~Extracted.ok /\ ScoreFound(Stripped)
              /\ ScoreMatch(Stripped).has2 /\ ScoreMatch(Stripped).g2 = 0)
        => normalized_result = ErrorResultWith(<<Lit("Failed to parse grading response")>>)

\* C14 witness: 'score: 1/0' after prose has been answered with the error
\* result
C14_Witness ==
    /\ Returned
    /\ origin.kind = "text"
    /\ origin.pre = <<Word, Ws>>
    /\ origin.body = <<Kw, Colon, Ws, NumTok(1), Slash, NumTok(0)>>
    /\ normalized_result.total_score = Int2Num(0)
    /\ normalized_result.feedback
          = <<ErrorIndicator, Lit("Failed to parse grading response")>>

\* the decoded value is an object / the total_score it gives (0 when absent)
ExtractedIsObject == Extracted.ok /\ Extracted.kind = "dict"
ExtractedScore == DictGet(Extracted.members, "total_score", Int2Num(0))

\* C15: when the extracted text is valid JSON but is not an object, or is an
\* object whose total_score is null or a string, the normalizer raises
\* nothing and returns the canonical error result: score 0, percentage 0,
\* feedback 'Error during grading: ...', empty collections; the regex
\* fallback is not run (the feedback is not the reply).
C15_OtherExceptionGivesErrorResult ==
    (Returned /\ Extracted.ok
              /\ (Extracted.kind # "dict" \/ ExtractedScore.ty \in {"null", "str"}))
        => /\ normalized_result.total_score = Int2Num(0)
           /\ normalized_result.percentage = Int2Num(0)
           /\ Len(normalized_result.feedback) > 1
           /\ Head(normalized_result.feedback) = ErrorIndicator
           /\ normalized_result.feedback # Stripped
           /\ normalized_result.criteria_scores = Obj(<<>>)
           /\ normalized_result.questions = List(<<>>)
           /\ normalized_result.strengths = List(<<>>)
           /\ normalized_result.areas_for_improvement = List(<<>>)
           /\ normalized_result.grade_justification # FallbackJustification

\* C15 witness: an object with total_score null, with criteria and questions
\* of its own, has been answered with the error result
C15_Witness ==
    /\ Returned
    /\ ExtractedIsObject
    /\ ExtractedScore = Null
    /\ HasKey(Extracted.members, "questions")
    /\ normalized_result.questions = List(<<>>)
    /\ Head(normalized_result.feedback) = ErrorIndicator

\* the reply's criteria_scores is the empty mapping, or the reply has none
NoCriteriaScores == DictGet(Extracted.members, "criteria_scores", Obj(<<>>)) = Obj(<<>>)
\* the result is the normal one: the fields are those of the reply
NormalWithEmptyCriteria ==
    /\ normalized_result.criteria_scores = Obj(<<>>)
    /\ normalized_result.total_score = PyMin(ExtractedScore, Total)
    /\ normalized_result.feedback = CombineFeedback(Extracted.members)
    /\ normalized_result.questions = DictGet(Extracted.members, "questions", List(<<>>))
    /\ normalized_result.strengths = DictGet(Extracted.members, "strengths", List(<<>>))
    /\ normalized_result.areas_for_improvement
          = DictGet(Extracted.members, "areas_for_improvement", List(<<>>))
    /\ normalized_result.grade_justification
          = DictGet(Extracted.members, "grade_justification", Str(<<>>))

\* C16 as stated: every JSON object reply whose criteria_scores is the empty
\* mapping or absent gets a normal (non-error) result with criteria_scores
\* the empty mapping and the other fields as the reply gives them.
C16_EmptyCriteriaForEveryObject ==
    (Returned /\ ExtractedIsObject /\ NoCriteriaScores) => NormalWithEmptyCriteria

\* C16 as amended: the same for a JSON object reply whose total_score is a
\* number (or absent) and whose feedback fields are well typed.
C16_EmptyCriteriaIsNoError ==
    (Returned /\ ExtractedIsObject /\ NoCriteriaScores
              /\ IsNumber(ExtractedScore)
              /\ CombineFeedbackError(Extracted.members) = "none")
        => NormalWithEmptyCriteria

\* C16 witness: a reply with "criteria_scores": {} and a score and feedback
\* of its own has been normalized with its score and an empty mapping
C16_Witness ==
    /\ Returned
    /\ ExtractedIsObject
    /\ HasKey(Extracted.members, "criteria_scores")
    /\ NoCriteriaScores
    /\ ExtractedScore = Int2Num(1)
    /\ HasKey(Extracted.members, "grade_justification")
    /\ normalized_result.total_score = Int2Num(1)
    /\ normalized_result.criteria_scores = Obj(<<>>)
    /\ normalized_result.grade_justification = Str(<<Word>>)

\* ---- claims about the workbook (Spec)
\* the run is over and create_excel_report returned a workbook
Exported == pc = "done" /\ excel_data # Null
\* every result of the run has its marks within 0..total_marks
ScoresInRange ==
    \A i \in 1..Len(all_results) :
        /\ PyLe(Int2Num(0), all_results[i].awarded_marks)
        /\ PyLe(all_results[i].awarded_marks, Int2Num(all_results[i].total_marks))

\* C17: when custom criteria are used and a reply gave a non-empty
\* per-criterion mapping, the workbook built from the run's results (here: of
\* a run whose scores are all in range) has a 'Criteria Breakdown' sheet with
\* one row per file.
C17_CriteriaSheetWritten ==
    (/\ Exported
     /\ ScoresInRange
     /\ use_custom_criteria
     /\ \E i \in 1..Len(all_results) : all_results[i].criteria_breakdown # Obj(<<>>))
        => /\ "Criteria Breakdown" \in excel_data.sheets
           /\ Len(excel_data.criteria) = Len(all_results)
           /\ \A i \in 1..Len(all_results) :
                 excel_data.criteria[i].student_file = all_results[i].filename

\* C18: the per-file result built from a successfully normalized reply (here:
\* in a run whose scores are all in range) carries the reply's strengths, areas_for_improvement and
\* grade_justification, and the file's row of the 'Detailed Results' sheet
\* shows them.
C18_DetailedRowShowsStrengths ==
    (Exported /\ ScoresInRange /\ FileDone /\ ReplyArrived
              /\ ParsePath(outcome.text) = "structured")
        => /\ ResultGet(LastResult, "strengths", Null) = grading_result.strengths
           /\ ResultGet(LastResult, "areas_for_improvement", Null)
                 = grading_result.areas_for_improvement
           /\ ResultGet(LastResult, "grade_justification", Null)
                 = grading_result.grade_justification
           /\ excel_data.detailed[Len(all_results)].strengths
                 = JoinItems(grading_result.strengths)
           /\ excel_data.detailed[Len(all_results)].areas_for_improvement
                 = JoinItems(grading_result.areas_for_improvement)

\* ---- claims about the upload step (Spec)
\* the types the uploader is documented to accept
DocumentedTypes == {"pdf", "docx", "doc", "jpg", "jpeg", "png"}

\* C19: a file of each of the types pdf, docx, doc, jpg, jpeg and png, in
\* any case, can be uploaded (while the batch has room) and has a supported
\* file type, doc being treated as docx.
C19_EveryDocumentedTypeCanBeUploaded ==
    (pc = "idle" /\ Len(uploaded_files) < MaxFiles)
        => \A file \in Files :
              (/\ Lower[file.ext] \in DocumentedTypes
               /\ \A i \in 1..Len(uploaded_files) : uploaded_files[i] # file)
                  => /\ ENABLED UploadFile(file)
                     /\ ValidateFileType(file) # Null
                     /\ Lower[file.ext] = "doc"
                           => ValidateFileType(file) = Str(<<Lit("docx")>>)

\* ---- claims about the brace slice (NormalizerSpec)
\* the stripped reply has a '{' with a '}' at or after it
HasSlice ==
    /\ Find(Stripped, "{") # -1
    /\ RFind(Stripped, "}") + 1 > Find(Stripped, "{")

\* C20: for a reply without a fence the text from the first '{' to the last
\* '}' is parsed: an object surrounded by brace-free prose is normalized to
\* the result of the bare object; a reply without such a slice is parsed as a
\* whole (a lone number is decoded, any other text goes to the fallback with
\* the whole stripped reply).
C20_SliceEqualsBare ==
    /\ (Returned /\ origin.kind = "sliced")
          => /\ ~FenceFound(Stripped)
             /\ HasSlice
             /\ Stripped # origin.body
             /\ ~JsonLoads(Stripped).ok
             /\ normalized_result = ParseGradingResponse(origin.body, total_marks)
    /\ (Returned /\ ~FenceFound(Stripped) /\ ~HasSlice)
          => IF JsonLoads(Stripped).ok
             THEN normalized_result
                     = ErrorResultWith(<<Lit("'int' object has no attribute 'get'")>>)
             ELSE normalized_result = FallbackTextParsing(Stripped, total_marks)

\* C20 witness: an object between a prose line that itself holds a score
\* pattern and a trailing word has been normalized by its own total_score
C20_Witness ==
    /\ Returned
    /\ origin.kind = "sliced"
    /\ origin.pre = <<Kw, Colon, NumTok(1), Ws>>
    /\ origin.post = <<Ws, Word>>
    /\ total_marks = 3
    /\ DictGet(JsonLoads(origin.body).members, "total_score", Int2Num(0)) = Int2Num(2)
    /\ CombineFeedbackError(JsonLoads(origin.body).members) = "none"
    /\ normalized_result.total_score = Int2Num(2)
    /\ normalized_result.grade_justification # FallbackJustification

\* ---- claims about the loop as a whole (Spec)
\* the result of one file as a function of the file, the configured total,
\* the text its extraction gave (Unbound when it raised) and the outcome of
\* its grading request (when one was sent)
ResultOf(file, total, text, o) ==
    IF text = Unbound THEN ExceptionResult(file, total, <<Lit("str(e)")>>)
    ELSE IF NoText(text) THEN NoTextResult(file, total)
    ELSE GradedResult(file, text, GradeAssignment(o, total), total)

\* C21: the result recorded for a file depends only on the file, the
\* configuration and what the services returned for this file: every step
\* that changes the list of results appends one result, which is the same
\* function of these inputs whatever the other files of the batch and their
\* results are, and leaves the results recorded before as they were.
C21_ResultDependsOnOwnFileOnly ==
    [][all_results' # all_results
          => /\ idx < Len(uploaded_files)
             /\ all_results'
                   = Append(all_results,
                            ResultOf(uploaded_files[idx + 1], total_marks,
                                     text_content', outcome'))]_vars

\* C21 witness: the second file of a batch has its graded result with marks
\* after a first file whose grading call failed
C21_Witness ==
    /\ FileDone
    /\ Len(all_results) = 2
    /\ Head(all_results[1].feedback) = ErrorIndicator
    /\ ReplyArrived
    /\ ParsePath(outcome.text) = "structured"
    /\ LastResult = ResultOf(uploaded_files[2], total_marks, text_content, outcome)
    /\ LastResult.awarded_marks = Int2Num(1)

\* the steps of one run of the button's handler: the script runs them one
\* after the other in a single thread
RunStep ==
    \/ StartDocument
    \/ StartImage
    \/ OcrReturns
    \/ GradingReturns
    \/ ProcessingRaises
    \/ Finish

\* the run goes on while it has a step to take: local steps terminate, and
\* each request carries timeout=30 (grading_service.py:159, ocr_service.py:95),
\* so a call returns or raises after a bounded time
FairSpec == Init /\ [][Next]_vars /\ WF_vars(RunStep)

\* the results recorded are those of the files before the current one, and
\* every request sent belongs to a file before it or to the file in progress
OneAtATime ==
    /\ pc \in {"loop", "ocr", "grading", "done"} => Len(all_results) = idx
    /\ \A k \in 1..Len(http_log) :
          \/ http_log[k].file < idx
          \/ http_log[k].file = idx /\ pc # "loop"
    /\ \A k \in 1..(Len(http_log) - 1) : http_log[k].file <= http_log[k + 1].file

\* the run is over: progress at 100% and one result per file to display
RunCompleted ==
    /\ pc = "done"
    /\ progress = Int2Num(1)
    /\ Len(all_results) = Len(uploaded_files)

\* C22: files are processed one at a time (no request of a file is sent
\* before the results of all files before it are recorded), and every run
\* that has started completes with progress at 100% and one result per
\* file, given that each remote call returns or times out.
C22_OneAtATimeAndCompletes ==
    /\ [](OneAtATime)
    /\ (pc = "loop") ~> RunCompleted

\* C22 witness: a run over a full batch has completed after remote calls
C22_Witness ==
    /\ RunCompleted
    /\ Len(uploaded_files) = MaxFiles
    /\ Cardinality(Requests(MaxFiles - 1, "grade")) = 1
    /\ OneAtATime

\* the current file is a jpg, jpeg or png
CurrentIsImage == IsImage(ValidateFileType(CurrentFile))

\* C23: the steps of a file come in the order extraction, grading request,
\* normalization: an OCR request is sent for images only and as the first
\* step of the file; the grading request (with its prompt) is sent only once
\* extraction has given non-empty text, after the OCR reply for an image and
\* after local extraction, with no OCR request, for any other file; the
\* normalized result exists only after the grading request has returned.
C23_ExtractionThenGradingThenNormalization ==
    [][/\ (pc' = "ocr" /\ pc # "ocr")
            => /\ pc = "loop"
               /\ CurrentIsImage
               /\ http_log' = Append(http_log, [file |-> idx, kind |-> "ocr"])
       /\ (pc' = "grading" /\ pc # "grading")
            => /\ ~NoText(text_content')
               /\ grading_result' = Null
               /\ http_log' = Append(http_log, [file |-> idx, kind |-> "grade"])
               /\ IF CurrentIsImage
                  THEN pc = "ocr" /\ Cardinality(Requests(idx, "ocr")) = 1
                  ELSE pc = "loop" /\ Requests(idx, "ocr") = {}
       /\ (grading_result' # Null /\ grading_result' # grading_result)
            => /\ pc = "grading"
               /\ ~NoText(text_content)
               /\ http_log' = http_log]_vars

\* C23 witness: an image whose OCR request returned text is being graded
C23_Witness ==
    /\ pc = "grading"
    /\ CurrentIsImage
    /\ ~NoText(text_content)
    /\ Cardinality(Requests(idx, "ocr")) = 1
    /\ http_log[Len(http_log)] = [file |-> idx, kind |-> "grade"]
    /\ grading_result = Null

\* a grading call was made for the file just recorded
GradingCalled == FileDone /\ outcome # Null

\* C24: in the result of a file for which the grading call was made,
\* percentage is awarded_marks / total_marks * 100, whatever percentage the
\* reply or the normalizer's result carries, also for a score of 0 or below;
\* the grade in the exported summary is the grade of that percentage.
C24_PercentageRecomputedFromAwarded ==
    GradingCalled
        => /\ LastResult.percentage = PercentOf(LastResult.awarded_marks)
           /\ Exported
                 => excel_data.summary[Len(all_results)].letter_grade
                       = CalculateLetterGrade(PercentOf(LastResult.awarded_marks))

\* C24 witness: a reply with a negative score and percentage 50 gives a
\* result with the percentage of the negative score
C24_Witness ==
    /\ GradingCalled
    /\ ReplyArrived
    /\ total_marks = 1
    /\ grading_result.percentage = Int2Num(50)
    /\ LastResult.awarded_marks = Int2Num(-1)
    /\ LastResult.percentage = Int2Num(-100)
    /\ Exported

\* ---- claims about responses without a text (Spec)
\* the grading request of the file just recorded got a 200 response with no
\* usable text
NoUsableText ==
    /\ GradingCalled
    /\ \/ outcome.kind = "ok_no_text"
       \/ outcome.kind = "ok" /\ outcome.text = <<>>

FailedToGetResponse == CreateErrorResult(<<Lit("Failed to get response from Gemini AI")>>)

\* C25: a 200 response without candidates, without content in the first
\* candidate, without parts, without text in the first part, or with an empty
\* text gives the error result with feedback 'Error during grading: Failed to
\* get response from Gemini AI'; it is not what the normalizer makes of an
\* empty reply.
C25_NoUsableTextGivesErrorResult ==
    NoUsableText
        => /\ CallGeminiApi(outcome) \in {Null, Str(<<>>)}
           /\ grading_result = FailedToGetResponse
           /\ grading_result.feedback
                 = <<Lit("Error during grading: "),
                     Lit("Failed to get response from Gemini AI")>>
           /\ grading_result # ParseGradingResponse(<<>>, total_marks)
           /\ LastResult.feedback = grading_result.feedback
           /\ LastResult.awarded_marks = Int2Num(0)

\* C25 witness: a 200 response whose first part has no text was recorded
C25_Witness ==
    /\ NoUsableText
    /\ outcome.kind = "ok_no_text"
    /\ outcome.body # Obj(<<>>)
    /\ DictGet(outcome.body.members, "candidates", Null) # List(<<>>)
    /\ ~HasKey(DictGet(DictGet(DictGet(outcome.body.members, "candidates", Null)
                  .items[1].members, "content", Obj(<<>>)).members,
                  "parts", List(<<Obj(<<>>)>>)).items[1].members, "text")
    /\ LastResult.feedback = FailedToGetResponse.feedback

\* ---- claims about the validation of the criteria (Spec)
\* custom criteria are enabled and their marks add up to more than the total
CriteriaExceedTotal == use_custom_criteria /\ SumMarks(custom_criteria) > total_marks

\* C27: with custom criteria whose marks exceed total_marks, pressing the
\* button ends the handler at once: no file is started, no request is sent,
\* no result is recorded, no workbook is built, and no step of a run can
\* follow.
C27_ExceedingCriteriaProcessNothing ==
    CriteriaExceedTotal
        => /\ pc \in {"idle", "rejected"}
           /\ idx = 0
           /\ progress = Null
           /\ all_results = <<>>
           /\ http_log = <<>>
           /\ excel_data = Null
           /\ pc = "rejected" => ~ENABLED RunStep

\* C27 witness: the button was pressed on a full batch with exceeding criteria
C27_Witness ==
    /\ CriteriaExceedTotal
    /\ pc = "rejected"
    /\ Len(uploaded_files) = MaxFiles
    /\ all_results = <<>>
    /\ http_log = <<>>

\* ---- claims about the letter grades (GradeSpec)
\* C28: for every percentage the letter shown on screen, the letter
\* exported and the letter counted in the distribution are the same, and
\* it is A from 90, B from 80, C from 70, D from 60 and F otherwise, each
\* boundary value included in the higher grade.
C28_SameLetterEverywhere ==
    LET Grade(p) == IF PyLe(Int2Num(90), p) THEN "A"
                    ELSE IF PyLe(Int2Num(80), p) THEN "B"
                    ELSE IF PyLe(Int2Num(70), p) THEN "C"
                    ELSE IF PyLe(Int2Num(60), p) THEN "D"
                    ELSE "F"
    IN  pc = "grades"
            => /\ grade_display # Null
                    => \A i \in 1..Len(percentages) :
                          Head(grade_display.items[i]) = Lit(Grade(percentages[i]))
               /\ letter_grades # Null
                    => \A i \in 1..Len(percentages) :
                          letter_grades.items[i] = Grade(percentages[i])
               /\ grade_distribution # Null
                    => \A g \in Letters :
                          grade_distribution.count[g]
                             = Cardinality({i \in 1..Len(percentages) :
                                               Grade(percentages[i]) = g})
               /\ (grade_display # Null /\ letter_grades # Null)
                    => \A i \in 1..Len(percentages) :
                          Head(grade_display.items[i]) = Lit(letter_grades.items[i])
               /\ (letter_grades # Null /\ grade_distribution # Null)
                    => \A g \in Letters :
                          grade_distribution.count[g]
                             = Cardinality({i \in 1..Len(percentages) :
                                               letter_grades.items[i] = g})

\* C28 witness: the three functions were applied to a percentage on the
\* boundary 90 and to one just below the boundary 60
C28_Witness ==
    /\ pc = "grades"
    /\ percentages = <<Int2Num(90), Rat(599, 10)>>
    /\ grade_display # Null
    /\ letter_grades # Null
    /\ grade_distribution # Null
    /\ Head(grade_display.items[1]) = Lit("A")
    /\ letter_grades.items = <<"A", "F">>
    /\ grade_distribution.count["A"] = 1
    /\ grade_distribution.count["F"] = 1

====
